---- MODULE Spec2Model ----
(***************************************************************************)
(* Model of the tricam package:                                            *)
(*   - StereoCalibrator (calibration.py): the corner store (add_corners),  *)
(*     calibrate_cameras and check_calibration;                            *)
(*   - StereoCalibration (calibration.py): construction, copy, export /    *)
(*     load and rectify;                                                   *)
(*   - ChessboardFinder.get_chessboard (stereo_cameras.py);                *)
(*   - calibrate_folder and BMTuner (ui_utils.py).                         *)
(* OpenCV and numpy are external: their numeric results are opaque tokens, *)
(* their shapes and failure modes are the ones the calling code relies on. *)
(***************************************************************************)
EXTENDS Integers, Sequences, FiniteSets, TLC

VARIABLES
    \* ---- StereoCalibrator (calibration.py:151-179) ----
    rows, columns, square_size, corner_coordinates,
    image_count, object_points, image_points,
    \* ---- heap of StereoCalibration objects (calibration.py:65-99) ----
    scal,       \* scal[o][f]: value of scalar field f of object o
    refs,       \* refs[o][f]: the dict <<o2, f2>> the per-side field f of o refers to
    dicts,      \* dicts[o][f][side]: the dict that o's constructor made for f
    \* ---- file system and numpy build ----
    fs,         \* fs[folder][filename]: content of a *.npy file
    np_allow_pickle,
    \* ---- observation of the last call (history, not program state) ----
    call,       \* the last StereoCalibrator call, its argument and outcome
    hist,       \* how many add_corners calls returned / raised so far
    calibrated, \* calibrate_cameras has been called on the calibrator
    scall,      \* the last StereoCalibration call, its arguments and outcome
    exported,   \* exported[folder]: the fields of the object last exported there
    rect_log,   \* the last two rectify calls, oldest first
    \* ---- ChessboardFinder (stereo_cameras.py:99-120) ----
    finder,     \* the calls of get_chessboard so far: frames captured and returned
    \* ---- calibrate_folder (ui_utils.py:68-106) ----
    cf,         \* position in calibrate_folder, args.input_files, calls made so far
    \* ---- BMTuner (ui_utils.py:109-226) ----
    py3,        \* the interpreter is Python 3 (dict.keys() is a view)
    bm,         \* bm[parameter]: the block matcher's current setting
    bm_settings,\* bm_settings[parameter]: the settings recorded by _save_bm_state
    tcall       \* the last BMTuner call, its argument and outcome

vars == <<rows, columns, square_size, corner_coordinates, image_count,
          object_points, image_points, scal, refs, dicts, fs,
          np_allow_pickle, call, hist, calibrated, scall, exported,
          rect_log, finder, cf, py3, bm, bm_settings, tcall>>

calibratorVars == <<rows, columns, square_size, corner_coordinates, image_count,
                    object_points, image_points>>
heapVars == <<scal, refs, dicts>>
storeVars == <<scall, exported, rect_log>>
sessionVars == <<call, hist, calibrated>>
tunerVars == <<py3, bm, bm_settings, tcall>>
envVars == <<np_allow_pickle, finder, cf, tunerVars>>

-----------------------------------------------------------------------------
\* Bounds of the model
MaxCalls == 3        \* calls made on one StereoCalibrator
MaxSteps == 4        \* calls made on StereoCalibration objects
MaxCapture == 2      \* distinct frame groups offered to rectify

Dims == {2, 3}               \* chessboard rows / columns offered to the constructor
SquareSizes == {1, 2}        \* square sizes offered to the constructor
GroupSizes == {2, 3}         \* images per group: ui_utils.py:94 passes 2, the rig has 3

\* ("left", "center", "right"), calibration.py:51, 117, 289
Sides == <<"left", "center", "right">>
SideSet == {"left", "center", "right"}

-----------------------------------------------------------------------------
\* Values held by calibration fields: None or a numeric array returned by
\* OpenCV / numpy, identified by where it came from.
None == [kind |-> "None", src |-> "none", n |-> 0, f |-> "", s |-> ""]
Arr(src, n, f, s) == [kind |-> "ndarray", src |-> src, n |-> n, f |-> f, s |-> s]
IsNone(v) == v.kind = "None"

\* The per-side and scalar fields of StereoCalibration.__init__, in the
\* order the constructor inserts them into __dict__.
SideFields == {"cam_mats", "dist_coefs", "rect_trans", "proj_mats",
               "valid_boxes", "undistortion_map", "rectification_map"}
ScalarFields == {"rot_mat", "trans_vec", "e_mat", "f_mat", "disp_to_depth_mat"}
FieldOrder == <<"cam_mats", "dist_coefs", "rot_mat", "trans_vec", "e_mat",
                "f_mat", "rect_trans", "proj_mats", "disp_to_depth_mat",
                "valid_boxes", "undistortion_map", "rectification_map">>

NoneDict == [s \in SideSet |-> None]

-----------------------------------------------------------------------------
\* StereoCalibrator.__init__: the reference pattern.
\* np.indices(pattern_size).T.reshape(-1, 2) enumerates (i, j) with the row
\* index i running fastest; the third coordinate stays 0; all scaled.
CornerCoordinates(r, c, sq) ==
    [k \in 1..(r * c) |-> <<((k - 1) % r) * sq, ((k - 1) \div r) * sq, 0>>]

\* An image of a capture: which call captured it, its place in the group,
\* and whether findChessboardCorners finds the board in it.
Image(cap, pos, board) == [cap |-> cap, pos |-> pos, board |-> board]

Groups(cap) ==
    UNION {{[p \in 1..m |-> Image(cap, p, b[p])] : b \in [1..m -> BOOLEAN]} :
           m \in GroupSizes}

\* _get_corners: the corners found in an image (rows * columns of them).
GetCorners(image) == [cap |-> image.cap, pos |-> image.pos, n |-> rows * columns]

\* corners.reshape(-1, 2): one row per corner.
Reshape(corners) == corners

Store == [object_points |-> object_points, image_points |-> image_points,
          image_count |-> image_count]

\* The loop of add_corners over the images of the group; side is the local
\* variable of that name. Raising leaves what was appended so far.
RECURSIVE AddLoop(_, _, _, _)
AddLoop(st, group, k, side) ==
    IF k > Len(group) THEN [st EXCEPT !.outcome = "ok"]
    ELSE IF ~group[k].board
    THEN [st EXCEPT !.outcome = "ChessboardNotFoundError"]
    ELSE LET corners == GetCorners(group[k])
             s1 == [st EXCEPT !.image_points[side] = Append(@, Reshape(corners))]
             s2 == [s1 EXCEPT !.image_points["center"] =
                                 Append(@, Reshape(corners))]
             s3 == [s2 EXCEPT !.image_count = @ + 1]
         IN  AddLoop(s3, group, k + 1, "right")

\* Line 189: the reference pattern is appended before any detection
\* (ObjectPointsKeep: the call without that append; ObjectPointsRecompute:
\* a call that builds the pattern anew, with rows and columns exchanged).
ObjectPointsKeep(ops) == ops
ObjectPointsRecompute(ops) ==
    Append(ops, CornerCoordinates(columns, rows, square_size))
ObjectPointsAppend(ops) == Append(ops, corner_coordinates)

AddCornersResult(group) ==
    AddLoop([object_points |-> ObjectPointsAppend(object_points),
             image_points |-> image_points,
             image_count |-> image_count,
             outcome |-> "running"], group, 1, "left")

CallRec(op, group, obj, outcome, value) ==
    [seq |-> call.seq + 1, op |-> op, group |-> group, obj |-> obj,
     outcome |-> outcome, value |-> value]

add_corners ==
    /\ call.seq < MaxCalls
    /\ \E group \in Groups(call.seq + 1) :
         LET r == AddCornersResult(group) IN
         /\ object_points' = r.object_points
         /\ image_points' = r.image_points
         /\ image_count' = r.image_count
         /\ call' = CallRec("add_corners", group, 0, r.outcome, 0)
         /\ hist' = IF r.outcome = "ok" /\ Len(group) = 3
                    THEN [hist EXCEPT !.ok3 = @ + 1]
                    ELSE [hist EXCEPT !.other = @ + 1]
    /\ UNCHANGED <<rows, columns, square_size, corner_coordinates, heapVars, fs,
                   envVars, calibrated, storeVars>>

-----------------------------------------------------------------------------
\* Access to the heap of StereoCalibration objects.
Allocated == 1..Len(scal)
Deref(o, f) == dicts[refs[o][f][1]][refs[o][f][2]]

\* The state of an object right after the assignments of
\* StereoCalibration.__init__, lines 72-95: every field None, every per-side
\* field a dict of its own.
FreshScal == [f \in ScalarFields |-> None]
FreshRefs(o) == [f \in SideFields |-> <<o, f>>]
FreshDicts == [f \in SideFields |-> NoneDict]

\* cv2.stereoCalibrate(...)[1:] unpacked into a StereoCalibration for the
\* pair (left, other): the eight targets of lines 210-213 / 229-232.
PairCalibration(tag, g, other) ==
    [cam_mats   |-> [NoneDict EXCEPT !["left"] = Arr(tag, g, "cam_mats", "left"),
                                     ![other] = Arr(tag, g, "cam_mats", other)],
     dist_coefs |-> [NoneDict EXCEPT !["left"] = Arr(tag, g, "dist_coefs", "left"),
                                     ![other] = Arr(tag, g, "dist_coefs", other)],
     rot_mat    |-> Arr(tag, g, "rot_mat", ""),
     trans_vec  |-> Arr(tag, g, "trans_vec", ""),
     e_mat      |-> Arr(tag, g, "e_mat", ""),
     f_mat      |-> Arr(tag, g, "f_mat", "")]

\* The sides that the unpacking of cv2.rectify3Collinear assigns a valid box
\* to (lines 258-259), and the sides of the remap-table loop (line 270;
\* MapSidesPair is the loop over a (left, right) pair).
ValidBoxSides == {"left", "right"}
MapSidesPair == {"left", "right"}
MapSides == {"left", "center", "right"}

\* The per-side dicts of cerberus when calibrate_cameras returns, for the
\* g-th calibration (lines 247-278).
CerberusDicts(g) ==
    LET calib13 == PairCalibration("stereoCalibrate13", g, "right")
        calib12 == PairCalibration("stereoCalibrate12", g, "center")
        r3(f, s) == Arr("rectify3Collinear", g, f, s)
        um(f, s) == Arr("initUndistortRectifyMap", g, f, s)
    IN  [cam_mats   |-> [left   |-> calib12.cam_mats["left"],
                         center |-> calib12.cam_mats["center"],
                         right  |-> calib13.cam_mats["right"]],
         dist_coefs |-> [left   |-> calib12.dist_coefs["left"],
                         center |-> calib12.dist_coefs["center"],
                         right  |-> calib13.dist_coefs["right"]],
         rect_trans |-> [s \in SideSet |-> r3("rect_trans", s)],
         proj_mats  |-> [s \in SideSet |-> r3("proj_mats", s)],
         valid_boxes |-> [s \in SideSet |->
                            IF s \in ValidBoxSides THEN r3("valid_boxes", s)
                            ELSE None],
         undistortion_map |-> [s \in SideSet |->
                            IF s \in MapSides THEN um("undistortion_map", s)
                            ELSE None],
         rectification_map |-> [s \in SideSet |->
                            IF s \in MapSides THEN um("rectification_map", s)
                            ELSE None]]

\* The scalar fields of cerberus: only disp_to_depth_mat (line 258) and
\* f_mat (line 268) are assigned; rot_mat, trans_vec and e_mat stay None.
CerberusScal(g) ==
    [FreshScal EXCEPT !["disp_to_depth_mat"] =
                          Arr("rectify3Collinear", g, "disp_to_depth_mat", ""),
                      !["f_mat"] = Arr("findFundamentalMat", g, "f_mat", "")]

\* calibrate_cameras: the OpenCV solvers either return or raise; when they
\* raise nothing escapes the call.
calibrate_cameras ==
    /\ call.seq < MaxCalls
    /\ \E solved \in BOOLEAN :
         LET o == Len(scal) + 1 IN
         IF solved
         THEN /\ scal' = Append(scal, CerberusScal(o))
              /\ refs' = Append(refs, FreshRefs(o))
              /\ dicts' = Append(dicts, CerberusDicts(o))
              /\ call' = CallRec("calibrate_cameras", <<>>, o, "ok", 0)
         ELSE /\ UNCHANGED heapVars
              /\ call' = CallRec("calibrate_cameras", <<>>, 0, "cv2.error", 0)
    /\ calibrated' = TRUE
    /\ UNCHANGED <<calibratorVars, fs, envVars, hist, storeVars>>

-----------------------------------------------------------------------------
\* check_calibration

\* len(np.concatenate(image_points[side]).reshape(-1, 1, 2)): one point per
\* corner of every entry; undistortPoints and computeCorrespondEpilines
\* return one element per point.
RECURSIVE SumN(_)
SumN(entries) ==
    IF entries = <<>> THEN 0 ELSE Head(entries).n + SumN(Tail(entries))
NPoints(side) == SumN(image_points[side])

\* The entry of a side that holds point i (0-based), and the stand-ins for
\* the float coordinates OpenCV returns for it (all non-zero integers).
EntryOf(side, i) == image_points[side][(i \div (rows * columns)) + 1]
Undistorted(side, i) ==
    <<EntryOf(side, i).cap + EntryOf(side, i).pos, (i % (rows * columns)) + 1>>
Lines(side, i) ==
    <<EntryOf(side, i).pos, EntryOf(side, i).cap, (i % (rows * columns)) + 1>>

Abs(x) == IF x < 0 THEN -x ELSE x

\* The summand of lines 306-319 (float division stands as integer quotient).
PointError(this_side, second_side, other_side, i) ==
    LET u == Undistorted(this_side, i)
        lo == Lines(other_side, i)
        ls == Lines(second_side, i)
    IN  Abs(u[1] * ((lo[1] + ls[1]) \div (lo[1] * ls[1])) +
            u[2] * ((lo[2] + ls[2]) \div (lo[2] * ls[2])) +
            ((lo[3] + ls[3]) \div lo[3]) * ls[3])

\* (this_side, second_side, other_side) during the k-th iteration of the
\* loop of line 304: line 303 sets them before the loop, line 320 sets them
\* at the end of every iteration.
Roles(k) ==
    IF k = 1
    THEN [this_side |-> Sides[1], second_side |-> Sides[2], other_side |-> Sides[3]]
    ELSE [other_side |-> Sides[1], this_side |-> Sides[2], second_side |-> Sides[3]]

\* The first loop, lines 292-301: np.concatenate raises on an empty list,
\* OpenCV raises on a missing matrix.
RECURSIVE Prepare(_, _)
Prepare(o, k) ==
    IF k > Len(Sides) THEN "ok"
    ELSE IF image_points[Sides[k]] = <<>> THEN "ValueError"
    ELSE IF \/ IsNone(Deref(o, "cam_mats")[Sides[k]])
            \/ IsNone(Deref(o, "dist_coefs")[Sides[k]])
            \/ IsNone(scal[o]["f_mat"]) THEN "cv2.error"
    ELSE Prepare(o, k + 1)

\* The inner loop, line 305: i runs over range(len(undistorted[side])); an
\* index past the end of any array read raises IndexError.
RECURSIVE InnerLoop(_, _, _, _)
InnerLoop(k, i, n, acc) ==
    LET r == Roles(k) IN
    IF i >= n THEN [kind |-> "ok", total |-> acc]
    ELSE IF \/ i >= NPoints(r.this_side)
            \/ i >= NPoints(r.other_side)
            \/ i >= NPoints(r.second_side)
    THEN [kind |-> "IndexError", total |-> acc]
    ELSE InnerLoop(k, i + 1, n,
                   acc + PointError(r.this_side, r.second_side, r.other_side, i))

RECURSIVE OuterLoop(_, _)
OuterLoop(k, acc) ==
    IF k > Len(Sides) THEN [kind |-> "ok", total |-> acc]
    ELSE LET inner == InnerLoop(k, 0, NPoints(Sides[k]), acc) IN
         IF inner.kind # "ok" THEN inner ELSE OuterLoop(k + 1, inner.total)

\* Line 321.
TotalPoints == image_count * Len(object_points)

\* Line 322: a zero divisor raises (total_error is still the int 0 then).
Average(total_error, total_points) ==
    IF total_points = 0 THEN [kind |-> "ZeroDivisionError", value |-> 0]
    ELSE [kind |-> "value", value |-> total_error \div total_points]

\* A check_calibration that answers 0 for a store without points.
CheckCalibrationLenient(o) ==
    IF TotalPoints = 0 THEN [kind |-> "value", value |-> 0]
    ELSE LET loop == OuterLoop(1, 0) IN
         IF loop.kind # "ok" THEN [kind |-> loop.kind, value |-> 0]
         ELSE [kind |-> "value", value |-> loop.total \div TotalPoints]

\* check_calibration, lines 289-322.
CheckCalibration(o) ==
    LET prep == Prepare(o, 1) IN
    IF prep # "ok" THEN [kind |-> prep, value |-> 0]
    ELSE LET loop == OuterLoop(1, 0) IN
         IF loop.kind # "ok" THEN [kind |-> loop.kind, value |-> 0]
         ELSE Average(loop.total, TotalPoints)

\* (check_calibration_draining: a check_calibration that takes the image
\* points out of the store while it concatenates them.)
check_calibration_draining ==
    /\ call.seq < MaxCalls
    /\ \E o \in Allocated :
         LET r == CheckCalibration(o) IN
         call' = CallRec("check_calibration", <<>>, o, r.kind, r.value)
    /\ image_points' = [s \in SideSet |-> <<>>]
    /\ UNCHANGED <<rows, columns, square_size, corner_coordinates, image_count,
                   object_points, heapVars, fs, envVars, hist, calibrated,
                   storeVars>>

check_calibration ==
    /\ call.seq < MaxCalls
    /\ \E o \in Allocated :
         LET r == CheckCalibration(o) IN
         call' = CallRec("check_calibration", <<>>, o, r.kind, r.value)
    /\ UNCHANGED <<calibratorVars, heapVars, fs, envVars, hist,
                   calibrated, storeVars>>


-----------------------------------------------------------------------------
\* StereoCalibration: folders of *.npy files

Folders == {"calib_a", "calib_b"}
AllFields == SideFields \cup ScalarFields

\* os.path.join(folder, "{}_{}.npy".format(key, camera)) and
\* os.path.join(folder, "{}.npy".format(key)), lines 52-53 and 59.
Filename(key, camera) == <<key, camera>>
ScalarFilename(key) == <<key>>
FileNames == {<<f, s>> : f \in SideFields, s \in SideSet} \cup
             {<<f>> : f \in ScalarFields}

NoFile == [present |-> FALSE, pickled |-> FALSE, v |-> None]
NoFolder == [exists |-> FALSE, files |-> [fn \in FileNames |-> NoFile]]

\* np.save(filename, x): x goes through np.asanyarray; None (and any array
\* of dtype object) can only be written pickled.
NpSave(v) == [present |-> TRUE, pickled |-> v.kind # "ndarray", v |-> v]

\* np.load(filename): a missing file raises IOError; a pickled file is
\* refused (ValueError) by a numpy whose allow_pickle default is False and
\* comes back as a 0-d array of dtype object otherwise.
NpLoad(content) ==
    IF ~content.present THEN [err |-> "IOError", v |-> None]
    ELSE IF content.pickled
    THEN IF np_allow_pickle
         THEN [err |-> "", v |-> [content.v EXCEPT !.kind = "ndarray(object)"]]
         ELSE [err |-> "ValueError", v |-> None]
    ELSE [err |-> "", v |-> content.v]

\* A folder written outside the model: one numeric array per file.
FullFolder(tag) ==
    [exists |-> TRUE,
     files |-> [fn \in FileNames |->
                  NpSave(Arr("file", tag, fn[1],
                             IF Len(fn) = 2 THEN fn[2] ELSE ""))]]

\* _interact_with_folder(folder, 'r') on object o of heap h, lines 49-63:
\* keys in __dict__ order, cameras in ("left", "center", "right") order;
\* the first np.load that raises ends the loop, what was assigned stays.
RECURSIVE LoadSides(_, _, _, _, _)
LoadSides(h, o, d, key, c) ==
    IF c > Len(Sides) THEN h
    ELSE LET r == NpLoad(fs[d].files[Filename(key, Sides[c])])
             ref == h.refs[o][key]
         IN  IF r.err # "" THEN [h EXCEPT !.outcome = r.err]
             ELSE LoadSides([h EXCEPT !.dicts[ref[1]][ref[2]][Sides[c]] = r.v],
                            o, d, key, c + 1)

RECURSIVE LoadKeys(_, _, _, _)
LoadKeys(h, o, d, k) ==
    IF k > Len(FieldOrder) THEN h
    ELSE LET key == FieldOrder[k] IN
         IF key \in SideFields
         THEN LET h2 == LoadSides(h, o, d, key, 1) IN
              IF h2.outcome # "ok" THEN h2 ELSE LoadKeys(h2, o, d, k + 1)
         ELSE LET r == NpLoad(fs[d].files[ScalarFilename(key)]) IN
              IF r.err # "" THEN [h EXCEPT !.outcome = r.err]
              ELSE LoadKeys([h EXCEPT !.scal[o][key] = r.v], o, d, k + 1)

\* _interact_with_folder(folder, 'w'), lines 49-63: files written one after
\* the other, a later write to the same name replaces the earlier one.
\* (SaveSidesLeftValue: the same loop saving self.__dict__[key]["left"]
\* under every camera's name.)
RECURSIVE SaveSidesLeftValue(_, _, _, _)
SaveSidesLeftValue(files, o, key, c) ==
    IF c > Len(Sides) THEN files
    ELSE SaveSidesLeftValue([files EXCEPT ![Filename(key, Sides[c])] =
                                             NpSave(Deref(o, key)["left"])],
                            o, key, c + 1)

RECURSIVE SaveSides(_, _, _, _)
SaveSides(files, o, key, c) ==
    IF c > Len(Sides) THEN files
    ELSE SaveSides([files EXCEPT ![Filename(key, Sides[c])] =
                                    NpSave(Deref(o, key)[Sides[c]])],
                   o, key, c + 1)

RECURSIVE SaveKeys(_, _, _)
SaveKeys(files, o, k) ==
    IF k > Len(FieldOrder) THEN files
    ELSE LET key == FieldOrder[k] IN
         IF key \in SideFields
         THEN SaveKeys(SaveSides(files, o, key, 1), o, k + 1)
         ELSE SaveKeys([files EXCEPT ![ScalarFilename(key)] = NpSave(scal[o][key])],
                       o, k + 1)

\* The fields of object o as a reader of o sees them.
ViewOf(h, o) ==
    [f \in AllFields |->
        IF f \in SideFields THEN h.dicts[h.refs[o][f][1]][h.refs[o][f][2]]
        ELSE [s \in SideSet |-> h.scal[o][f]]]
Heap == [scal |-> scal, refs |-> refs, dicts |-> dicts, outcome |-> "ok"]
View(o) == ViewOf(Heap, o)
FreshView == [f \in AllFields |-> NoneDict]
Populated(view) == \A f \in AllFields : \A s \in SideSet : view[f][s].kind = "ndarray"

\* What the files of a folder hold, field by field.
FolderView(d) ==
    [f \in AllFields |-> [s \in SideSet |->
        IF f \in SideFields THEN fs[d].files[<<f, s>>].v ELSE fs[d].files[<<f>>].v]]
FolderLoadable(d) == \A fn \in FileNames : NpLoad(fs[d].files[fn]).err = ""

StoreCall(op, obj, calibration, folder, outcome, fresh, loaded) ==
    [seq |-> scall.seq + 1, op |-> op, obj |-> obj, calibration |-> calibration,
     folder |-> folder, outcome |-> outcome, fresh |-> fresh, loaded |-> loaded]

\* StereoCalibration.__init__(calibration, input_folder), lines 72-99, on
\* the heap extended by the new object o. 0 and "" stand for None.
Construct(o, calibration, input_folder) ==
    LET h0 == [scal |-> Append(scal, FreshScal),
               refs |-> Append(refs, FreshRefs(o)),
               dicts |-> Append(dicts, FreshDicts),
               outcome |-> "ok", loaded |-> FALSE]
    IN  IF calibration # 0
        THEN \* _copy_calibration, lines 38-39: the items themselves are copied
             [h0 EXCEPT !.scal[o] = scal[calibration],
                        !.refs[o] = refs[calibration]]
        ELSE IF input_folder # ""
        THEN [LoadKeys(h0, o, input_folder, 1) EXCEPT !.loaded = TRUE]
        ELSE h0

\* A constructor that raises returns no object: the heap stays as it was.
new ==
    /\ scall.seq < MaxSteps
    /\ \E calibration \in {0} \cup Allocated, input_folder \in {""} \cup Folders :
         LET o == Len(scal) + 1
             h == Construct(o, calibration, input_folder)
         IN  /\ IF h.outcome = "ok"
                THEN scal' = h.scal /\ refs' = h.refs /\ dicts' = h.dicts
                ELSE UNCHANGED heapVars
             /\ scall' = StoreCall("new", IF h.outcome = "ok" THEN o ELSE 0,
                                   calibration, input_folder, h.outcome,
                                   TRUE, h.loaded)
    /\ UNCHANGED <<calibratorVars, sessionVars, fs, envVars, exported,
                   rect_log>>

\* load(input_folder), lines 101-103.
load ==
    /\ scall.seq < MaxSteps
    /\ \E o \in Allocated, d \in Folders :
         LET h == LoadKeys(Heap, o, d, 1) IN
         /\ scal' = h.scal
         /\ dicts' = h.dicts
         /\ scall' = StoreCall("load", o, 0, d, h.outcome,
                               View(o) = FreshView /\ refs[o] = FreshRefs(o), TRUE)
    /\ UNCHANGED <<calibratorVars, sessionVars, refs, fs, envVars,
                   exported, rect_log>>

\* export(output_folder), lines 105-109.
export ==
    /\ scall.seq < MaxSteps
    /\ \E o \in Allocated, d \in Folders :
         /\ fs' = [fs EXCEPT ![d] = [exists |-> TRUE,
                                     files |-> SaveKeys(fs[d].files, o, 1)]]
         /\ exported' = [exported EXCEPT ![d] = [set |-> TRUE, view |-> View(o)]]
         /\ scall' = StoreCall("export", o, 0, d, "ok", FALSE, FALSE)
    /\ UNCHANGED <<calibratorVars, sessionVars, heapVars, envVars, rect_log>>

-----------------------------------------------------------------------------
\* rectify

\* The frames the three cameras deliver at capture c, in camera order.
Frame(c, cam) == [cap |-> c, cam |-> cam]
FrameGroup(c) == [i \in 1..Len(Sides) |-> Frame(c, Sides[i])]

\* cv2.remap(frame, map1, map2, cv2.INTER_NEAREST): a function of its
\* arguments.
Remap(frame, map1, map2) ==
    [frame |-> frame, map1 |-> map1, map2 |-> map2, interpolation |-> "INTER_NEAREST"]

\* The camera whose maps are used for frames[i], line 117 (enumerate);
\* CamOfPair is the two-camera pairing (left, right).
CamOfPair(i) == IF i = 1 THEN "left" ELSE "right"
CamOf(i) == Sides[i]

\* The loop of lines 117-121; cv2.remap raises when a map is no array.
RECURSIVE RectifyLoop(_, _, _, _)
RectifyLoop(o, frames, i, new_frames) ==
    IF i > Len(Sides) THEN [outcome |-> "ok", result |-> new_frames]
    ELSE LET map1 == Deref(o, "undistortion_map")[CamOf(i)]
             map2 == Deref(o, "rectification_map")[CamOf(i)]
         IN  IF map1.kind # "ndarray" \/ map2.kind # "ndarray"
             THEN [outcome |-> "cv2.error", result |-> <<>>]
             ELSE RectifyLoop(o, frames, i + 1,
                              Append(new_frames, Remap(frames[i], map1, map2)))

rectify ==
    /\ scall.seq < MaxSteps
    /\ \E o \in Allocated, c \in 1..MaxCapture :
         LET r == RectifyLoop(o, FrameGroup(c), 1, <<>>) IN
         /\ rect_log' = <<rect_log[2],
                          [set |-> TRUE, obj |-> o, frames |-> FrameGroup(c),
                           map1 |-> Deref(o, "undistortion_map"),
                           map2 |-> Deref(o, "rectification_map"),
                           outcome |-> r.outcome, result |-> r.result]>>
         /\ scall' = StoreCall("rectify", o, 0, "", r.outcome, FALSE, FALSE)
    /\ UNCHANGED <<calibratorVars, sessionVars, heapVars, fs, envVars,
                   exported>>

-----------------------------------------------------------------------------
\* ChessboardFinder.get_chessboard (stereo_cameras.py:103-120).
MaxShots == 3        \* calls of get_chessboard

\* What get_frames returns: one frame per camera of the capture numbered cap;
\* board[i] says whether the chessboard is visible in frame i.
Capture(cap, board) == [cap |-> cap, board |-> board]
Captures(cap) == {Capture(cap, board) : board \in [1..3 -> BOOLEAN]}

\* cv2.findChessboardCorners(frame, (columns, rows), CALIB_CB_FAST_CHECK)[0]
FindChessboardCorners(frames, i) == frames.board[i]

All(found) == \A i \in 1..3 : found[i]

\* The body of the while loop, entered with found_chessboard all False:
\* one capture, three detections, then the return statement that stands at
\* the indentation of the for statement.
GetChessboard(frames) ==
    [frames |-> frames,
     found_chessboard |-> [i \in 1..3 |-> FindChessboardCorners(frames, i)]]

get_chessboard ==
    /\ Len(finder.returned) < MaxShots
    /\ \E frames \in Captures(finder.captured + 1) :
         LET r == GetChessboard(frames) IN
         finder' = [captured |-> finder.captured + 1,
                    returned |-> Append(finder.returned, r)]
    /\ UNCHANGED <<calibratorVars, heapVars, storeVars, sessionVars, fs,
                   np_allow_pickle, cf, tunerVars>>

InitFinder == finder = [captured |-> 0, returned |-> <<>>]

-----------------------------------------------------------------------------
\* calibrate_folder(args) (ui_utils.py:68-106), statement by statement.
MaxFiles == 4        \* length of args.input_files

\* args.input_files: image files, each with or without a visible chessboard.
InputFiles ==
    UNION {[1..m -> BOOLEAN] : m \in 0..MaxFiles}

CfCall(op, outcome) == [op |-> op, outcome |-> outcome]
CfRaise(err) == [cf EXCEPT !.pc = "raised", !.err = err]

\* Lines 82-89: imread of the first file, a new StereoCalibrator.
cf_start ==
    /\ cf.pc = "idle"
    /\ \E files \in InputFiles, d \in Folders :
         cf' = IF files = <<>>
               THEN [CfRaise("IndexError") EXCEPT !.output_folder = d]
               ELSE [cf EXCEPT !.pc = "reading", !.input_files = files,
                               !.output_folder = d]
    /\ image_count' = 0
    /\ object_points' = <<>>
    /\ image_points' = [s \in SideSet |-> <<>>]
    /\ UNCHANGED <<rows, columns, square_size, corner_coordinates, heapVars,
                   storeVars, sessionVars, fs, np_allow_pickle, finder,
                   tunerVars>>

\* One pass of the while loop, lines 90-96: the first two files are read
\* and given to add_corners as one group, then dropped from the list.
\* Unpacking a single remaining file raises ValueError.
cf_read ==
    /\ cf.pc = "reading"
    /\ cf.input_files # <<>>
    /\ IF Len(cf.input_files) < 2
       THEN /\ cf' = CfRaise("ValueError")
            /\ UNCHANGED <<image_count, object_points, image_points>>
       ELSE LET cap == Len(object_points) + 1
                group == <<Image(cap, 1, cf.input_files[1]),
                           Image(cap, 2, cf.input_files[2])>>
                r == AddCornersResult(group)
            IN  /\ object_points' = r.object_points
                /\ image_points' = r.image_points
                /\ image_count' = r.image_count
                /\ cf' = IF r.outcome = "ok"
                         THEN [cf EXCEPT
                                 !.input_files = SubSeq(@, 3, Len(@)),
                                 !.calls = Append(@, CfCall("add_corners", "ok"))]
                         ELSE [CfRaise(r.outcome) EXCEPT
                                 !.calls = Append(@, CfCall("add_corners",
                                                            r.outcome))]
    /\ UNCHANGED <<rows, columns, square_size, corner_coordinates, heapVars,
                   storeVars, sessionVars, fs, np_allow_pickle, finder,
                   tunerVars>>

\* Line 100, reached when the list is empty: calibrate_cameras returns a
\* new calibration or raises.
cf_calibrate ==
    /\ cf.pc = "reading"
    /\ cf.input_files = <<>>
    /\ \E solved \in BOOLEAN :
         LET o == Len(scal) + 1 IN
         IF solved
         THEN /\ scal' = Append(scal, CerberusScal(o))
              /\ refs' = Append(refs, FreshRefs(o))
              /\ dicts' = Append(dicts, CerberusDicts(o))
              /\ cf' = [cf EXCEPT !.pc = "calibrated", !.calibration = o,
                                  !.calls = Append(@, CfCall("calibrate_cameras",
                                                             "ok"))]
         ELSE /\ UNCHANGED heapVars
              /\ cf' = [CfRaise("cv2.error") EXCEPT
                          !.calls = Append(@, CfCall("calibrate_cameras",
                                                     "cv2.error"))]
    /\ UNCHANGED <<calibratorVars, storeVars, sessionVars, fs, np_allow_pickle,
                   finder, tunerVars>>

\* Lines 101-106: check_calibration, the report, export. An exception of
\* check_calibration leaves the function before export is reached.
\* (CheckThenExportAnyway: the same lines with the check inside a
\* try / except that only reports the failure.)
CheckThenExportAnyway(o, d) ==
    LET r == CheckCalibration(o) IN
    [pc |-> "done", err |-> "",
     calls |-> <<CfCall("check_calibration", IF r.kind = "value" THEN "ok"
                                             ELSE r.kind),
                 CfCall("export", "ok")>>,
     folder |-> [exists |-> TRUE, files |-> SaveKeys(fs[d].files, o, 1)]]

CheckThenExport(o, d) ==
    LET r == CheckCalibration(o) IN
    IF r.kind # "value"
    THEN [pc |-> "raised", err |-> r.kind,
          calls |-> <<CfCall("check_calibration", r.kind)>>,
          folder |-> fs[d]]
    ELSE [pc |-> "done", err |-> "",
          calls |-> <<CfCall("check_calibration", "ok"), CfCall("export", "ok")>>,
          folder |-> [exists |-> TRUE, files |-> SaveKeys(fs[d].files, o, 1)]]

cf_finish ==
    /\ cf.pc = "calibrated"
    /\ LET r == CheckThenExport(cf.calibration, cf.output_folder) IN
       /\ cf' = [cf EXCEPT !.pc = r.pc, !.err = r.err, !.calls = @ \o r.calls]
       /\ fs' = [fs EXCEPT ![cf.output_folder] = r.folder]
    /\ UNCHANGED <<calibratorVars, heapVars, storeVars, sessionVars,
                   np_allow_pickle, finder, tunerVars>>

InitFolder ==
    cf = [pc |-> "idle", input_files |-> <<>>, output_folder |-> "",
          calibration |-> 0, calls |-> <<>>, err |-> ""]

-----------------------------------------------------------------------------
\* BMTuner (ui_utils.py:109-226). The block matcher is the object handed to
\* the constructor: BMTuner reads parameter_maxima.keys(), reads a setting
\* with __getattribute__ and writes one with __setattr__, which may raise
\* BadBlockMatcherArgumentError.
MaxRecords == 3      \* settings recorded per parameter

Parameters == {"search_range", "window_size"}
Settings == {0, 1}           \* trackbar positions offered to _set_value

TunerCall(op, parameter, outcome, settings_list, report) ==
    [op |-> op, parameter |-> parameter, outcome |-> outcome,
     settings_list |-> settings_list, report |-> report]

\* _set_value, lines 125-131: the new value is kept unless the block
\* matcher refuses it.
_set_value ==
    /\ \E parameter \in Parameters, new_value \in Settings, accepted \in BOOLEAN :
         /\ bm' = IF accepted THEN [bm EXCEPT ![parameter] = new_value] ELSE bm
         /\ tcall' = TunerCall("_set_value", parameter,
                               IF accepted THEN "ok"
                               ELSE "BadBlockMatcherArgumentError", <<>>, <<>>)
    /\ UNCHANGED <<calibratorVars, heapVars, storeVars, sessionVars, fs,
                   np_allow_pickle, finder, cf, py3, bm_settings>>

\* _save_bm_state, lines 146-150.
SaveBmState(settings) == [q \in Parameters |-> Append(settings[q], bm[q])]

\* tune_group, lines 188-192.
tune_group ==
    /\ \A q \in Parameters : Len(bm_settings[q]) < MaxRecords
    /\ bm_settings' = SaveBmState(bm_settings)
    /\ tcall' = TunerCall("tune_group", "", "ok", <<>>, <<>>)
    /\ UNCHANGED <<calibratorVars, heapVars, storeVars, sessionVars, fs,
                   np_allow_pickle, finder, cf, py3, bm>>

\* settings_list.count(value)
RECURSIVE Count(_, _)
Count(list, value) ==
    IF list = <<>> THEN 0
    ELSE (IF Head(list) = value THEN 1 ELSE 0) + Count(Tail(list), value)

UniqueValues(list) == {list[i] : i \in 1..Len(list)}

\* The dicts that the loop of lines 208-209 can leave in value_frequency:
\* one key per count, holding the value of that count that the iteration
\* over list(set(settings_list)) reached last.
ValueFrequencies(list) ==
    LET counts == {Count(list, v) : v \in UniqueValues(list)} IN
    {vf \in [counts -> UniqueValues(list)] :
        \A c \in counts : Count(list, vf[c]) = c}

\* Lines 210-221: one row per key of value_frequency, largest key first.
RECURSIVE Rows(_, _)
Rows(value_frequency, frequency) ==
    IF frequency = 0 THEN <<>>
    ELSE IF frequency \in DOMAIN value_frequency
    THEN <<[value |-> value_frequency[frequency], frequency |-> frequency]>>
         \o Rows(value_frequency, frequency - 1)
    ELSE Rows(value_frequency, frequency - 1)

\* Lines 223-225 (KeepNewest: the method without them).
KeepNewest(settings) == settings
PopNewest(settings) ==
    [q \in Parameters |-> SubSeq(settings[q], 1, Len(settings[q]) - 1)]

\* report_settings, lines 194-226. dict.keys() has a sort method in
\* Python 2 only: under Python 3 line 211 raises AttributeError, after
\* the state was saved and before it is removed.
report_settings ==
    /\ \A q \in Parameters : Len(bm_settings[q]) < MaxRecords
    /\ \E parameter \in Parameters :
         LET saved == SaveBmState(bm_settings)
             settings_list == Tail(saved[parameter])
         IN  IF py3
             THEN /\ bm_settings' = saved
                  /\ tcall' = TunerCall("report_settings", parameter,
                                        "AttributeError", settings_list, <<>>)
             ELSE \E value_frequency \in ValueFrequencies(settings_list) :
                  /\ bm_settings' = PopNewest(saved)
                  /\ tcall' = TunerCall("report_settings", parameter, "ok",
                                        settings_list,
                                        Rows(value_frequency, Len(settings_list)))
    /\ UNCHANGED <<calibratorVars, heapVars, storeVars, sessionVars, fs,
                   np_allow_pickle, finder, cf, py3, bm>>

\* BMTuner.__init__, lines 152-172: an empty record per parameter, then
\* tune_group saves the block matcher's defaults.
TunerConstructed ==
    /\ bm_settings = [q \in Parameters |-> <<bm[q]>>]
    /\ tcall = TunerCall("__init__", "", "ok", <<>>, <<>>)

InitTuner ==
    /\ py3 = TRUE
    /\ bm = [q \in Parameters |-> 0]
    /\ TunerConstructed

-----------------------------------------------------------------------------
InitCalibrator ==
    /\ corner_coordinates = CornerCoordinates(rows, columns, square_size)
    /\ image_count = 0
    /\ object_points = <<>>
    /\ image_points = [s \in SideSet |-> <<>>]
    /\ call = [seq |-> 0, op |-> "init", group |-> <<>>, obj |-> 0,
               outcome |-> "ok", value |-> 0]
    /\ hist = [ok3 |-> 0, other |-> 0]
    /\ calibrated = FALSE

NoRect == [set |-> FALSE, obj |-> 0, frames |-> <<>>, map1 |-> NoneDict,
           map2 |-> NoneDict, outcome |-> "", result |-> <<>>]

InitHeap ==
    /\ scal = <<>>
    /\ refs = <<>>
    /\ dicts = <<>>
    /\ scall = [seq |-> 0, op |-> "init", obj |-> 0, calibration |-> 0,
                folder |-> "", outcome |-> "ok", fresh |-> FALSE, loaded |-> FALSE]
    /\ exported = [d \in Folders |-> [set |-> FALSE, view |-> FreshView]]
    /\ rect_log = <<NoRect, NoRect>>

\* A calibration session: one StereoCalibrator, constructed with any of the
\* offered chessboard geometries.
Init ==
    /\ rows \in Dims
    /\ columns \in Dims
    /\ square_size \in SquareSizes
    /\ InitCalibrator
    /\ InitHeap
    /\ fs = [d \in Folders |-> NoFolder]
    /\ np_allow_pickle = FALSE
    /\ InitFinder
    /\ InitFolder
    /\ InitTuner

Next == add_corners \/ calibrate_cameras \/ check_calibration

Spec == Init /\ [][Next]_vars

\* StereoCalibration objects and folders: calib_a holds a complete set of
\* files, calib_b does not exist yet; either numpy build.
InitCalibration ==
    /\ rows = 2
    /\ columns = 2
    /\ square_size = 1
    /\ InitCalibrator
    /\ InitHeap
    /\ fs = [d \in Folders |-> IF d = "calib_a" THEN FullFolder(1) ELSE NoFolder]
    /\ np_allow_pickle \in BOOLEAN
    /\ InitFinder
    /\ InitFolder
    /\ InitTuner

NextCalibration == new \/ load \/ export \/ rectify

SpecCalibration == InitCalibration /\ [][NextCalibration]_vars

\* Objects and folders together with a calibrator whose calibrate_cameras
\* result is exported and loaded. The calibrator has one call left: its
\* earlier calibrate_cameras calls raised cv2.error.
InitPersist ==
    /\ rows = 2
    /\ columns = 2
    /\ square_size = 1
    /\ corner_coordinates = CornerCoordinates(rows, columns, square_size)
    /\ image_count = 0
    /\ object_points = <<>>
    /\ image_points = [s \in SideSet |-> <<>>]
    /\ call = [seq |-> MaxCalls - 1, op |-> "calibrate_cameras", group |-> <<>>,
               obj |-> 0, outcome |-> "cv2.error", value |-> 0]
    /\ hist = [ok3 |-> 0, other |-> 0]
    /\ calibrated = TRUE
    /\ InitHeap
    /\ fs = [d \in Folders |-> IF d = "calib_a" THEN FullFolder(1) ELSE NoFolder]
    /\ np_allow_pickle \in BOOLEAN
    /\ InitFinder
    /\ InitFolder
    /\ InitTuner

NextPersist == calibrate_cameras \/ new \/ load \/ export

SpecPersist == InitPersist /\ [][NextPersist]_vars

\* A BMTuner on a block matcher with any default settings, under either
\* interpreter.
InitBM ==
    /\ rows = 2
    /\ columns = 2
    /\ square_size = 1
    /\ InitCalibrator
    /\ InitHeap
    /\ fs = [d \in Folders |-> NoFolder]
    /\ np_allow_pickle = FALSE
    /\ InitFinder
    /\ InitFolder
    /\ py3 \in BOOLEAN
    /\ bm \in [Parameters -> Settings]
    /\ TunerConstructed

NextBM == _set_value \/ tune_group \/ report_settings

SpecBM == InitBM /\ [][NextBM]_vars

\* One run of calibrate_folder.
NextFolder == cf_start \/ cf_read \/ cf_calibrate \/ cf_finish

SpecFolder == Init /\ [][NextFolder]_vars

\* A ChessboardFinder taking pictures for a calibrator.
NextFinder == get_chessboard

SpecFinder == Init /\ [][NextFinder]_vars

-----------------------------------------------------------------------------
\* Properties of the corner store (checked under Spec)

StoreUnchanged == UNCHANGED <<object_points, image_points, image_count>>
OnlyGoodTriples == hist.other = 0

\* C1: after N successful add_corners calls on three-image groups, and no
\* other add_corners call, object_points and the image points of each side
\* have N entries and image_count is N.
C1_OneEntryPerCapture ==
    OnlyGoodTriples =>
        /\ Len(object_points) = hist.ok3
        /\ \A s \in SideSet : Len(image_points[s]) = hist.ok3
        /\ image_count = hist.ok3

\* C2: an add_corners call on a three-image group that raises
\* ChessboardNotFoundError leaves object_points, image_points and
\* image_count as they were before the call.
C2_FailedCaptureDiscarded ==
    [][(/\ call'.op = "add_corners"
        /\ Len(call'.group) = 3
        /\ call'.outcome = "ChessboardNotFoundError") => StoreUnchanged]_vars

\* C3: a successful add_corners call on (img_left, img_center, img_right)
\* appends to each side exactly the corners detected in that side's image,
\* so the sides stay as long as object_points.
C3_CornersGoToTheirSide ==
    [][(/\ call'.op = "add_corners"
        /\ Len(call'.group) = 3
        /\ call'.outcome = "ok") =>
       /\ \A k \in 1..3 :
            image_points'[Sides[k]] =
                Append(image_points[Sides[k]], Reshape(GetCorners(call'.group[k])))
       /\ OnlyGoodTriples' =>
            \A s \in SideSet : Len(image_points'[s]) = Len(object_points')]_vars

\* C5 as claimed: when calibrate_cameras returns, every per-side field of
\* the returned calibration is populated for left, center and right.
C5_EverySideFieldPopulated ==
    (call.op = "calibrate_cameras" /\ call.outcome = "ok") =>
        \A f \in SideFields : \A s \in SideSet : ~IsNone(Deref(call.obj, f)[s])

\* C5 as amended: when calibrate_cameras returns, every per-side field of
\* the returned calibration is populated for left, center and right, except
\* valid_boxes["center"], which is still None.
C5_SideFieldsPopulatedButCenterBox ==
    (call.op = "calibrate_cameras" /\ call.outcome = "ok") =>
        \A f \in SideFields : \A s \in SideSet :
            IsNone(Deref(call.obj, f)[s]) <=> (f = "valid_boxes" /\ s = "center")

C5_Witness == call.op = "calibrate_cameras" /\ call.outcome = "ok"

\* C6: check_calibration returns a value only when
\* image_count * len(object_points) > 0, the value is >= 0, and on a store
\* without captures it raises instead of returning.
C6_ErrorDefinedAndNonNegative ==
    call.op = "check_calibration" =>
        /\ call.outcome = "value" => (call.value >= 0 /\ TotalPoints > 0)
        /\ object_points = <<>> =>
             call.outcome \in {"ValueError", "ZeroDivisionError", "cv2.error"}

C6_Witness ==
    /\ call.op = "check_calibration"
    /\ object_points = <<>>
    /\ call.outcome = "ValueError"

\* C7: for a store built by N >= 1 successful add_corners calls on
\* three-image groups, the divisor of check_calibration is the number of
\* accumulated points, N * rows * columns.
C7_DivisorIsPointCount ==
    (OnlyGoodTriples /\ hist.ok3 >= 1) => TotalPoints = hist.ok3 * rows * columns

-----------------------------------------------------------------------------
\* Properties of StereoCalibration (checked under SpecCalibration)

LoadedFreshFromExport ==
    /\ scall.op \in {"new", "load"}
    /\ scall.loaded
    /\ scall.fresh
    /\ scall.outcome = "ok"
    /\ exported[scall.folder].set
    /\ Populated(exported[scall.folder].view)

\* C4: exporting a calibration whose fields are all populated and loading
\* the folder into a fresh StereoCalibration gives a calibration equal to
\* the exported one, field by field and side by side.
C4_ExportLoadRoundTrip ==
    LoadedFreshFromExport => View(scall.obj) = exported[scall.folder].view

C4_Witness == LoadedFreshFromExport /\ scall.folder = "calib_b"

RectifyRight(r) ==
    r.outcome = "ok" =>
        /\ Len(r.result) = 3
        /\ \A i \in 1..3 :
             r.result[i] = Remap(r.frames[i], r.map1[Sides[i]], r.map2[Sides[i]])

C10_FolderOverwritesCalibration ==
    (/\ scall.op = "new"
     /\ scall.calibration # 0
     /\ scall.folder # ""
     /\ FolderLoadable(scall.folder)
     /\ scall.outcome = "ok") => View(scall.obj) = FolderView(scall.folder)

-----------------------------------------------------------------------------
\* Further properties of the calibrator (checked under Spec)

\* C13: every element of object_points is the reference pattern computed
\* in the constructor from rows, columns and square_size; no call of the
\* calibrator recomputes or changes it.
C13_ObjectPointsAreReferencePattern ==
    /\ corner_coordinates = CornerCoordinates(rows, columns, square_size)
    /\ \A k \in 1..Len(object_points) : object_points[k] = corner_coordinates

C13_Witness ==
    /\ call.op = "calibrate_cameras"
    /\ Len(object_points) >= 2
    /\ rows # columns

\* C14: in the error loop of check_calibration each of left, center and
\* right is this_side in exactly one iteration (the iteration of that
\* side), with the other two sides as second_side and other_side.
C14_EverySideEvaluatedOnce ==
    (call.op = "check_calibration" /\ call.outcome = "IndexError") =>
        \A k \in 1..Len(Sides) :
            /\ Roles(k).this_side = Sides[k]
            /\ {Roles(k).second_side, Roles(k).other_side} = SideSet \ {Sides[k]}

\* C16: calibrate_cameras and check_calibration leave object_points,
\* image_points, image_count and corner_coordinates as they were, and
\* check_calibration leaves every calibration as it was.
C16_CalibrateAndCheckKeepStore ==
    [][(call'.seq # call.seq /\
        call'.op \in {"calibrate_cameras", "check_calibration"}) =>
           /\ StoreUnchanged
           /\ UNCHANGED corner_coordinates
           /\ (call'.op = "check_calibration" => UNCHANGED heapVars)]_vars

C16_Witness ==
    /\ call.op = "check_calibration"
    /\ call.outcome = "IndexError"
    /\ calibrated
    /\ \A s \in SideSet : image_points[s] # <<>>

\* C19: on a store filled only by successful add_corners calls on
\* three-image groups (at least one), check_calibration reads no index past
\* the end of an array.
C19_NoIndexPastTheEnd ==
    (OnlyGoodTriples /\ hist.ok3 >= 1 /\ call.op = "check_calibration") =>
        call.outcome # "IndexError"

-----------------------------------------------------------------------------
\* Properties of export / load of partly populated calibrations (checked
\* under SpecPersist)

PartlyPopulated(view) ==
    /\ \E f \in AllFields : \E s \in SideSet : IsNone(view[f][s])
    /\ \E f \in AllFields : \E s \in SideSet : view[f][s].kind = "ndarray"

\* The last call loaded, into a fresh object, a folder that holds exactly
\* what an export of a partly populated calibration wrote.
LoadedPartlyPopulatedExport ==
    /\ scall.op = "load"
    /\ scall.fresh
    /\ exported[scall.folder].set
    /\ FolderView(scall.folder) = exported[scall.folder].view
    /\ PartlyPopulated(exported[scall.folder].view)

\* C12: after export of a partly populated calibration and load into a
\* fresh one, every entry that was None before the export is still
\* distinguishable from a populated one (it is not a numeric array) and
\* every populated entry is the array that was exported.
C12_UnsetStaysUnset ==
    LoadedPartlyPopulatedExport =>
        \A f \in AllFields : \A s \in SideSet :
            LET before == exported[scall.folder].view[f][s]
                after == View(scall.obj)[f][s]
            IN  IF IsNone(before) THEN after.kind # "ndarray"
                ELSE after = before

-----------------------------------------------------------------------------
\* Ownership of copied calibrations (checked under SpecCalibration)

\* C20: a calibration made as a copy of another owns its fields: a load
\* into one object changes no field of any other object.
C20_CopyOwnsItsFields ==
    [][(scall'.seq # scall.seq /\ scall'.op = "load") =>
          \A a \in Allocated \ {scall'.obj} :
              ViewOf([scal |-> scal', refs |-> refs', dicts |-> dicts'], a) =
              View(a)]_vars

-----------------------------------------------------------------------------
\* Order of the steps of calibrate_folder (checked under SpecFolder)

CfRank(op) ==
    CASE op = "add_corners" -> 1
      [] op = "calibrate_cameras" -> 2
      [] op = "check_calibration" -> 3
      [] op = "export" -> 4

NothingWritten == \A d \in Folders : fs[d] = NoFolder

\* C15: calibrate_folder calls add_corners until every input file is
\* consumed, then calibrate_cameras, then check_calibration, then export,
\* each only after the call before it returned; when a step raises, export
\* is not called and no file is written.
C15_FixedOrder ==
    LET calls == cf.calls
        ops == {calls[i].op : i \in 1..Len(calls)}
    IN  /\ \A i \in 1..Len(calls) : \A j \in 1..Len(calls) :
              i < j => /\ CfRank(calls[i].op) <= CfRank(calls[j].op)
                       /\ calls[i].outcome = "ok"
                       /\ CfRank(calls[j].op) > 1 =>
                              CfRank(calls[i].op) < CfRank(calls[j].op)
        /\ \A j \in 1..Len(calls) :
              (CfRank(calls[j].op) > 2) =>
                 (j > 1 /\ CfRank(calls[j - 1].op) = CfRank(calls[j].op) - 1)
        /\ "calibrate_cameras" \in ops => cf.input_files = <<>>
        /\ (cf.pc = "raised" \/ "export" \notin ops) => NothingWritten
        /\ cf.pc = "raised" => "export" \notin ops

C15_Witness ==
    /\ cf.pc = "raised"
    /\ cf.err = "IndexError"
    /\ Len(cf.calls) = 4
    /\ cf.calls[4].op = "check_calibration"
    /\ NothingWritten

-----------------------------------------------------------------------------
\* Properties of BMTuner.report_settings (checked under SpecBM)

C18_OneRowPerValue ==
    (tcall.op = "report_settings" /\ tcall.outcome = "ok") =>
        /\ \A v \in UniqueValues(tcall.settings_list) :
              Cardinality({i \in 1..Len(tcall.report) :
                              tcall.report[i].value = v}) = 1
        /\ \A i \in 1..Len(tcall.report) :
              /\ tcall.report[i].value \in UniqueValues(tcall.settings_list)
              /\ tcall.report[i].frequency =
                     Count(tcall.settings_list, tcall.report[i].value)

-----------------------------------------------------------------------------
\* Properties of ChessboardFinder (checked under SpecFinder)

\* C11: get_chessboard returns a frame group only when the chessboard was
\* detected in all three frames of that group; otherwise it captures again.
C11_ReturnsOnlyFullDetections ==
    \A k \in 1..Len(finder.returned) :
        All(finder.returned[k].found_chessboard)

====
